---- MODULE Spec2Model ----
(***************************************************************************)
(* Weather-profile resolution engine of the weather-planner tool server:   *)
(* get_weather_profile (services/weather.py) over the file cache           *)
(* (core/cache.py).                                                        *)
(*                                                                         *)
(* Dates are records [year, month, day]; an ISO date string is the tuple   *)
(* <<year, month, day>>.  Coordinates are integers in units of 1e-6        *)
(* degree.  Numbers read from the upstream payload are integers; a float   *)
(* of the program is the fraction [n, d] (d > 0, lowest terms).            *)
(* Optional values are [some, v].  A cache file path is the key itself     *)
(* (sha256 is taken to be injective on the keys used).                     *)
(***************************************************************************)
EXTENDS Integers, Sequences, FiniteSets, TLC

VARIABLES today, now, cache, calls, last, prev, lab

vars == <<today, now, cache, calls, last, prev, lab>>

(***************************************************************************)
(* Bounds of the model.                                                    *)
(***************************************************************************)
MaxCalls == 2
MaxTicks == 2
MaxYearsBack == 2
MaxDays == 3
MaxCodeYears == 4

\* the tokens a buffered file object passes to the file in one write
ChunkLen == 2

(***************************************************************************)
(* Program constants.                                                      *)
(***************************************************************************)
MAX_FORECAST_DAYS == 16
ttl_seconds == 86400

\* seconds that pass in one step of the clock: one TTL window, so that an
\* entry is seen at the ages 0, ttl_seconds and 2 * ttl_seconds
TickSeconds == ttl_seconds

(***************************************************************************)
(* datetime.date                                                           *)
(***************************************************************************)
MkDate(y, m, d) == [year |-> y, month |-> m, day |-> d]

IsLeap(y) == (y % 4 = 0) /\ ((y % 100 # 0) \/ (y % 400 = 0))

DaysInMonth(y, m) ==
  CASE m \in {1, 3, 5, 7, 8, 10, 12} -> 31
    [] m \in {4, 6, 9, 11} -> 30
    [] OTHER -> IF IsLeap(y) THEN 29 ELSE 28

IsValidDate(y, m, d) ==
  /\ y \in 1..9999
  /\ m \in 1..12
  /\ d \in 1..DaysInMonth(y, m)

DateLT(a, b) ==
  \/ a.year < b.year
  \/ a.year = b.year /\ a.month < b.month
  \/ a.year = b.year /\ a.month = b.month /\ a.day < b.day

DateLE(a, b) == ~DateLT(b, a)

NextDay(d) ==
  IF d.day < DaysInMonth(d.year, d.month) THEN MkDate(d.year, d.month, d.day + 1)
  ELSE IF d.month < 12 THEN MkDate(d.year, d.month + 1, 1)
  ELSE MkDate(d.year + 1, 1, 1)

PrevDay(d) ==
  IF d.day > 1 THEN MkDate(d.year, d.month, d.day - 1)
  ELSE IF d.month > 1 THEN MkDate(d.year, d.month - 1, DaysInMonth(d.year, d.month - 1))
  ELSE MkDate(d.year - 1, 12, 31)

RECURSIVE AddDays(_, _)
AddDays(d, n) ==
  IF n = 0 THEN d
  ELSE IF n > 0 THEN AddDays(NextDay(d), n - 1)
  ELSE AddDays(PrevDay(d), n + 1)

\* date.isoformat(): the text YYYY-MM-DD, as the tuple of its three numbers
IsoFormat(d) == <<d.year, d.month, d.day>>

\* date.fromisoformat(t): [some |-> FALSE] stands for the ValueError
FromIsoFormat(t) ==
  IF IsValidDate(t[1], t[2], t[3])
  THEN [some |-> TRUE, v |-> MkDate(t[1], t[2], t[3])]
  ELSE [some |-> FALSE, v |-> MkDate(0, 0, 0)]

(***************************************************************************)
(* Optional values and floats                                              *)
(***************************************************************************)
RECURSIVE Gcd(_, _)
Gcd(a, b) == IF b = 0 THEN a ELSE Gcd(b, a % b)

Abs(x) == IF x < 0 THEN -x ELSE x

Frac(n, d) ==
  LET g == Gcd(Abs(n), d) IN [n |-> n \div g, d |-> d \div g]

FracAdd(a, b) == Frac(a.n * b.d + b.n * a.d, a.d * b.d)

FracLT(a, b) == a.n * b.d < b.n * a.d

FracGE1(a) == a.n >= a.d

Zero == Frac(0, 1)

None == [some |-> FALSE, v |-> Zero]

Some(x) == [some |-> TRUE, v |-> x]

NoInt == [some |-> FALSE, v |-> 0]

SomeInt(i) == [some |-> TRUE, v |-> i]

(***************************************************************************)
(* JSON values of the per-day arrays                                       *)
(***************************************************************************)
JNull == [t |-> "null", v |-> 0]

JNum(i) == [t |-> "num", v |-> i]

\* text that is no number
JStr == [t |-> "str", v |-> 0]

\* text that float() and int() read as the number i
JNumStr(i) == [t |-> "numstr", v |-> i]

\* true and false, which float() and int() read as 1 and 0
JBool(b) == [t |-> "bool", v |-> IF b THEN 1 ELSE 0]

\* an array, which float() and int() reject
JList == [t |-> "list", v |-> 0]

\* the kinds of value float() and int() convert
Converted == {"num", "numstr", "bool"}

\* _safe_float(arr, idx)
safe_float(arr, idx) ==
  IF idx > Len(arr) THEN None
  ELSE IF arr[idx].t \in Converted THEN Some(Frac(arr[idx].v, 1))
  ELSE None

\* _safe_int(arr, idx)
safe_int(arr, idx) ==
  IF idx > Len(arr) THEN NoInt
  ELSE IF arr[idx].t \in Converted THEN SomeInt(arr[idx].v)
  ELSE NoInt

(***************************************************************************)
(* Upstream payloads: the JSON object with its "daily" arrays, and the     *)
(* "_cached_at" member the cache adds.                                     *)
(***************************************************************************)
MkPayload(time, tmin, tmax, precip, wind, wcode) ==
  [time |-> time, tmin |-> tmin, tmax |-> tmax, precip |-> precip,
   wind |-> wind, wcode |-> wcode, cached_at |-> NoInt]

\* the empty dict {}
EmptyDict == MkPayload(<<>>, <<>>, <<>>, <<>>, <<>>, <<>>)

(***************************************************************************)
(* WeatherDay, WeatherProfile                                              *)
(***************************************************************************)
WeatherDay(d, tmin, tmax, precip, wind, wcode) ==
  [date |-> d, temp_min_c |-> tmin, temp_max_c |-> tmax,
   precipitation_mm |-> precip, wind_max_kmh |-> wind, weather_code |-> wcode]

Src(base, y) == [base |-> base, year |-> y]

\* WeatherProfile(start_date, end_date, days, raw) with the schema's defaults
WeatherProfile(start, end, days, raw) ==
  [start_date |-> start, end_date |-> end, days |-> days,
   temp_min_c |-> None, temp_max_c |-> None, precip_total_mm |-> None,
   rainy_days |-> NoInt, wind_max_kmh |-> None,
   raw |-> raw, source |-> Src("forecast", 0), is_estimate |-> FALSE,
   reference_years |-> <<>>]

NoProfile == WeatherProfile(MkDate(0, 0, 0), MkDate(0, 0, 0), <<>>, EmptyDict)

\* _profile_from_openmeteo: the day records of the entries of "time" that parse
RECURSIVE ParseDays(_, _)
ParseDays(data, i) ==
  IF i > Len(data.time) THEN <<>>
  ELSE LET d == FromIsoFormat(data.time[i])
       IN IF ~d.some THEN ParseDays(data, i + 1)
          ELSE <<WeatherDay(d.v,
                            safe_float(data.tmin, i),
                            safe_float(data.tmax, i),
                            safe_float(data.precip, i),
                            safe_float(data.wind, i),
                            safe_int(data.wcode, i))>> \o ParseDays(data, i + 1)

\* the days with the fields read at the position k of the day in the day list
RECURSIVE ParseDaysFiltered(_, _, _)
ParseDaysFiltered(data, i, k) ==
  IF i > Len(data.time) THEN <<>>
  ELSE LET d == FromIsoFormat(data.time[i])
       IN IF ~d.some THEN ParseDaysFiltered(data, i + 1, k)
          ELSE <<WeatherDay(d.v,
                            safe_float(data.tmin, k),
                            safe_float(data.tmax, k),
                            safe_float(data.precip, k),
                            safe_float(data.wind, k),
                            safe_int(data.wcode, k))>>
               \o ParseDaysFiltered(data, i + 1, k + 1)

\* _profile_from_openmeteo with the index of the filtered day list
profile_from_filtered_index(data, start, end, include_raw) ==
  WeatherProfile(start, end, ParseDaysFiltered(data, 1, 1),
                 IF include_raw THEN data ELSE EmptyDict)

profile_from_openmeteo(data, start, end, include_raw) ==
  WeatherProfile(start, end, ParseDays(data, 1),
                 IF include_raw THEN data ELSE EmptyDict)

(***************************************************************************)
(* FileCache                                                               *)
(***************************************************************************)
\* CacheGet with an entry of age ttl_seconds already expired
CacheGetExpiresAtTTL(c, key, t) ==
  IF key \notin DOMAIN c THEN [some |-> FALSE, v |-> EmptyDict]
  ELSE LET payload == c[key]
       IN IF ~payload.cached_at.some THEN [some |-> TRUE, v |-> payload]
          ELSE IF (t - payload.cached_at.v) >= ttl_seconds
               THEN [some |-> FALSE, v |-> EmptyDict]
          ELSE [some |-> TRUE, v |-> payload]

\* FileCache.get: [some |-> FALSE] is the miss (None)
CacheGet(c, key, t) ==
  IF key \notin DOMAIN c THEN [some |-> FALSE, v |-> EmptyDict]
  ELSE LET payload == c[key]
       IN IF ~payload.cached_at.some THEN [some |-> TRUE, v |-> payload]
          ELSE IF (t - payload.cached_at.v) > ttl_seconds
               THEN [some |-> FALSE, v |-> EmptyDict]
          ELSE [some |-> TRUE, v |-> payload]

\* FileCache.set
CacheSet(c, key, value, t) ==
  [k \in DOMAIN c \cup {key} |->
     IF k = key THEN [value EXCEPT !.cached_at = SomeInt(t)] ELSE c[k]]

(***************************************************************************)
(* Coordinates and the cache key                                           *)
(***************************************************************************)
\* "{x:.5f}": x in 1e-6 degree, the result in 1e-5 degree
Fmt5(x) == (x + 5) \div 10

\* CacheKey with the coordinates as given
CacheKeyUnrounded(source, coords, start, end) ==
  <<source, coords.lat, coords.lon, IsoFormat(start), IsoFormat(end)>>

CacheKey(source, coords, start, end) ==
  <<source, Fmt5(coords.lat), Fmt5(coords.lon), IsoFormat(start), IsoFormat(end)>>

(***************************************************************************)
(* Upstream answers.  kind "response": an HTTP answer with a status, a     *)
(* body that is JSON or not, a "reason" member ("" when it has none) and,  *)
(* for a success, the payload.  kind "exception": requests.get raised.     *)
(***************************************************************************)
MkResp(kind, status, json, reason, payload) ==
  [kind |-> kind, status |-> status, json |-> json, reason |-> reason,
   payload |-> payload]

FORECAST_BASE_URL == "https://api.open-meteo.com/v1/forecast"

ARCHIVE_BASE_URL == "https://archive-api.open-meteo.com/v1/archive"

\* the query parameters of lines 158-165
Params(coords, start, end) ==
  [latitude |-> coords.lat, longitude |-> coords.lon,
   start_date |-> IsoFormat(start), end_date |-> IsoFormat(end)]

\* what one call of _fetch_openmeteo_daily did: the endpoint and parameters
\* of its request, its key, whether it read the cache, hit, or found an entry
\* past its TTL, whether it sent the upstream request, whether it wrote the
\* cache, the exception it raised ("" when it returned a profile), and the
\* status line of the answer it got (NoAnswer when it sent no request)
FetchLog(year, url, params, key, get, hit, expired, request, set, raised, answer) ==
  [year |-> year, url |-> url, params |-> params, key |-> key, get |-> get,
   hit |-> hit, expired |-> expired, request |-> request, set |-> set,
   raised |-> raised, answer |-> answer]

\* the part of an upstream answer the fetcher branches on
Answer(resp) ==
  [kind |-> resp.kind, status |-> resp.status, json |-> resp.json,
   reason |-> resp.reason]

NoAnswer == [kind |-> "", status |-> 0, json |-> FALSE, reason |-> ""]

FetchResult(raised, status, reason, profile, c, log) ==
  [raised |-> raised, status |-> status, reason |-> reason,
   profile |-> profile, cache |-> c, log |-> log]

\* the provenance fields _fetch_openmeteo_daily sets on the parsed profile
Stamp(profile, source) ==
  [profile EXCEPT !.source = source, !.is_estimate = FALSE,
                  !.reference_years = <<>>]

\* a variant of _fetch_openmeteo_daily that stores the answer before it looks
\* at the status
fetch_caching_errors(base_url, source, coords, start, end, c, has_cache, t, include_raw, resp, year) ==
  LET key == CacheKey(source, coords, start, end)
      cached == IF has_cache THEN CacheGet(c, key, t)
                ELSE [some |-> FALSE, v |-> EmptyDict]
      stored == IF has_cache THEN CacheSet(c, key, resp.payload, t) ELSE c
      L(hit, request, set, raised) ==
        FetchLog(year, base_url, Params(coords, start, end), key, has_cache, hit,
                 has_cache /\ key \in DOMAIN c /\ ~cached.some,
                 request, set, raised,
                 IF request THEN Answer(resp) ELSE NoAnswer)
  IN IF cached.some
     THEN FetchResult("", 0, "",
            Stamp(profile_from_openmeteo(cached.v, start, end, include_raw), source),
            c, L(TRUE, FALSE, FALSE, ""))
     ELSE IF resp.kind = "exception"
     THEN FetchResult("RequestException", 0, "", NoProfile, c,
                      L(FALSE, TRUE, FALSE, "RequestException"))
     ELSE IF resp.status >= 400
     THEN FetchResult("UpstreamError", resp.status,
                      IF resp.json THEN resp.reason ELSE "", NoProfile, stored,
                      L(FALSE, TRUE, FALSE, "UpstreamError"))
     ELSE IF ~resp.json
     THEN FetchResult("JSONDecodeError", 0, "", NoProfile, c,
                      L(FALSE, TRUE, FALSE, "JSONDecodeError"))
     ELSE FetchResult("", 0, "",
            Stamp(profile_from_openmeteo(resp.payload, start, end, include_raw), source),
            stored, L(FALSE, TRUE, has_cache, ""))

\* _fetch_openmeteo_daily; year only labels the log entry
fetch_openmeteo_daily(base_url, source, coords, start, end, c, has_cache, t, include_raw, resp, year) ==
  LET key == CacheKey(source, coords, start, end)
      cached == IF has_cache THEN CacheGet(c, key, t)
                ELSE [some |-> FALSE, v |-> EmptyDict]
      L(hit, request, set, raised) ==
        FetchLog(year, base_url, Params(coords, start, end), key, has_cache, hit,
                 has_cache /\ key \in DOMAIN c /\ ~cached.some,
                 request, set, raised,
                 IF request THEN Answer(resp) ELSE NoAnswer)
  IN IF cached.some
     THEN FetchResult("", 0, "",
            Stamp(profile_from_openmeteo(cached.v, start, end, include_raw), source),
            c, L(TRUE, FALSE, FALSE, ""))
     ELSE IF resp.kind = "exception"
     THEN FetchResult("RequestException", 0, "", NoProfile, c,
                      L(FALSE, TRUE, FALSE, "RequestException"))
     ELSE IF resp.status >= 400
     THEN FetchResult("UpstreamError", resp.status,
                      IF resp.json THEN resp.reason ELSE "", NoProfile, c,
                      L(FALSE, TRUE, FALSE, "UpstreamError"))
     ELSE IF ~resp.json
     THEN FetchResult("JSONDecodeError", 0, "", NoProfile, c,
                      L(FALSE, TRUE, FALSE, "JSONDecodeError"))
     ELSE FetchResult("", 0, "",
            Stamp(profile_from_openmeteo(resp.payload, start, end, include_raw), source),
            IF has_cache THEN CacheSet(c, key, resp.payload, t) ELSE c,
            L(FALSE, TRUE, has_cache, ""))

(***************************************************************************)
(* Helpers of the fallback synthesizer                                     *)
(***************************************************************************)
\* the loop of _safe_replace_year that clamps the day down
RECURSIVE ClampDown(_, _, _)
ClampDown(year, month, day) ==
  IF day > 28
  THEN IF IsValidDate(year, month, day - 1)
       THEN [some |-> TRUE, v |-> MkDate(year, month, day - 1)]
       ELSE ClampDown(year, month, day - 1)
  ELSE IF IsValidDate(year, month, day)
       THEN [some |-> TRUE, v |-> MkDate(year, month, day)]
       ELSE [some |-> FALSE, v |-> MkDate(0, 0, 0)]

\* _safe_replace_year with 29 February moved on to 1 March
safe_replace_year_forward(d, year) ==
  IF IsValidDate(year, d.month, d.day)
  THEN [some |-> TRUE, v |-> MkDate(year, d.month, d.day)]
  ELSE IF d.month = 2 /\ d.day = 29
  THEN IF IsValidDate(year, 3, 1)
       THEN [some |-> TRUE, v |-> MkDate(year, 3, 1)]
       ELSE [some |-> FALSE, v |-> MkDate(0, 0, 0)]
  ELSE ClampDown(year, d.month, d.day)

\* _safe_replace_year; [some |-> FALSE] is the ValueError it lets escape
safe_replace_year(d, year) ==
  IF IsValidDate(year, d.month, d.day)
  THEN [some |-> TRUE, v |-> MkDate(year, d.month, d.day)]
  ELSE IF d.month = 2 /\ d.day = 29
  THEN IF IsValidDate(year, 2, 28)
       THEN [some |-> TRUE, v |-> MkDate(year, 2, 28)]
       ELSE [some |-> FALSE, v |-> MkDate(0, 0, 0)]
  ELSE ClampDown(year, d.month, d.day)

\* _date_range_inclusive
RECURSIVE date_range_inclusive(_, _)
date_range_inclusive(start, end) ==
  IF DateLE(start, end)
  THEN <<start>> \o date_range_inclusive(NextDay(start), end)
  ELSE <<>>

\* the most frequent value with ties going to the value met first, as
\* statistics.mode does
mode_first(values) ==
  LET vs == {values[i] : i \in 1..Len(values)}
      cnt(v) == Cardinality({i \in 1..Len(values) : values[i] = v})
      first(v) == CHOOSE i \in 1..Len(values) :
                    values[i] = v /\ \A j \in 1..(i - 1) : values[j] # v
  IN CHOOSE v \in vs :
       \A w \in vs : cnt(v) > cnt(w) \/ (cnt(v) = cnt(w) /\ first(v) <= first(w))

\* _mode_int: first of the (value, count) items sorted by count descending,
\* then value ascending
mode_int(values) ==
  LET vs == {values[i] : i \in 1..Len(values)}
      cnt(v) == Cardinality({i \in 1..Len(values) : values[i] = v})
  IN CHOOSE v \in vs :
       \A w \in vs : cnt(v) > cnt(w) \/ (cnt(v) = cnt(w) /\ v <= w)

RECURSIVE FracSum(_)
FracSum(xs) == IF xs = <<>> THEN Zero ELSE FracAdd(Head(xs), FracSum(Tail(xs)))

\* mean with the division of integers
meanFloor(xs) == LET s == FracSum(xs) IN Frac(s.n \div (s.d * Len(xs)), 1)

\* statistics.mean
mean(xs) == LET s == FracSum(xs) IN Frac(s.n, s.d * Len(xs))

FracMin(xs) ==
  CHOOSE x \in {xs[i] : i \in 1..Len(xs)} :
    \A j \in 1..Len(xs) : ~FracLT(xs[j], x)

FracMax(xs) ==
  CHOOSE x \in {xs[i] : i \in 1..Len(xs)} :
    \A j \in 1..Len(xs) : ~FracLT(x, xs[j])

\* [x.f for x in days if x.f is not None]
RECURSIVE PresentVals(_, _)
PresentVals(days, f) ==
  IF days = <<>> THEN <<>>
  ELSE (IF Head(days)[f].some THEN <<Head(days)[f].v>> ELSE <<>>)
       \o PresentVals(Tail(days), f)

\* the values the years with a day at position idx have for field f
RECURSIVE ValsAt(_, _, _)
ValsAt(yearly, idx, f) ==
  IF yearly = <<>> THEN <<>>
  ELSE LET ds == Head(yearly).prof.days
       IN (IF idx <= Len(ds) /\ ds[idx][f].some THEN <<ds[idx][f].v>> ELSE <<>>)
          \o ValsAt(Tail(yearly), idx, f)

\* one synthesized day: lines 247-278
AggDay(yearly, idx, d_req) ==
  LET vals_tmin == ValsAt(yearly, idx, "temp_min_c")
      vals_tmax == ValsAt(yearly, idx, "temp_max_c")
      vals_prec == ValsAt(yearly, idx, "precipitation_mm")
      vals_wind == ValsAt(yearly, idx, "wind_max_kmh")
      vals_code == ValsAt(yearly, idx, "weather_code")
  IN WeatherDay(d_req,
       IF vals_tmin # <<>> THEN Some(mean(vals_tmin)) ELSE None,
       IF vals_tmax # <<>> THEN Some(mean(vals_tmax)) ELSE None,
       IF vals_prec # <<>> THEN Some(mean(vals_prec)) ELSE None,
       IF vals_wind # <<>> THEN Some(mean(vals_wind)) ELSE None,
       IF vals_code # <<>> THEN SomeInt(mode_int(vals_code)) ELSE NoInt)

AggDays(yearly, requested_days) ==
  [idx \in 1..Len(requested_days) |-> AggDay(yearly, idx, requested_days[idx])]

\* sum(1 for d in agg_days if (d.precipitation_mm or 0.0) >= 1.0)
RainyCount(days) ==
  Cardinality({i \in 1..Len(days) :
     FracGE1(IF days[i].precipitation_mm.some THEN days[i].precipitation_mm.v
             ELSE Zero)})

\* WithAggregates with the precipitation total of an empty list taken as 0
WithAggregatesZeroTotal(profile) ==
  LET mins == PresentVals(profile.days, "temp_min_c")
      maxs == PresentVals(profile.days, "temp_max_c")
      precs == PresentVals(profile.days, "precipitation_mm")
      winds == PresentVals(profile.days, "wind_max_kmh")
  IN [profile EXCEPT
        !.temp_min_c = IF mins # <<>> THEN Some(FracMin(mins)) ELSE None,
        !.temp_max_c = IF maxs # <<>> THEN Some(FracMax(maxs)) ELSE None,
        !.precip_total_mm = Some(FracSum(precs)),
        !.rainy_days = SomeInt(RainyCount(profile.days)),
        !.wind_max_kmh = IF winds # <<>> THEN Some(FracMax(winds)) ELSE None]

\* the aggregates of lines 290-300
WithAggregates(profile) ==
  LET mins == PresentVals(profile.days, "temp_min_c")
      maxs == PresentVals(profile.days, "temp_max_c")
      precs == PresentVals(profile.days, "precipitation_mm")
      winds == PresentVals(profile.days, "wind_max_kmh")
  IN [profile EXCEPT
        !.temp_min_c = IF mins # <<>> THEN Some(FracMin(mins)) ELSE None,
        !.temp_max_c = IF maxs # <<>> THEN Some(FracMax(maxs)) ELSE None,
        !.precip_total_mm = IF precs # <<>> THEN Some(FracSum(precs)) ELSE None,
        !.rainy_days = SomeInt(RainyCount(profile.days)),
        !.wind_max_kmh = IF winds # <<>> THEN Some(FracMax(winds)) ELSE None]

(***************************************************************************)
(* The upstream service.  A template is the daily arrays of an answer,     *)
(* with the entries of "time" given as "ok" (the next date of the          *)
(* requested range) or "bad" (text that is no ISO date).                   *)
(***************************************************************************)
RECURSIVE TimeArray(_, _)
TimeArray(flags, d) ==
  IF flags = <<>> THEN <<>>
  ELSE IF Head(flags) = "ok" THEN <<IsoFormat(d)>> \o TimeArray(Tail(flags), NextDay(d))
  ELSE <<<<0, 0, 0>>>> \o TimeArray(Tail(flags), NextDay(d))

\* the answer of the upstream service to a request for the days from start on
Upstream(tpl, start) ==
  IF tpl.kind = "response" /\ tpl.status < 400 /\ tpl.json
  THEN [tpl EXCEPT !.payload = [@ EXCEPT !.time = TimeArray(@, start)]]
  ELSE tpl

Nums(xs) == [i \in 1..Len(xs) |-> JNum(xs[i])]

\* two days, every field present
PayloadFull ==
  MkPayload(<<"ok", "ok">>, Nums(<<1, 2>>), Nums(<<5, 4>>), Nums(<<0, 3>>),
            Nums(<<10, 20>>), Nums(<<3, 5>>))

\* a first entry that is no date, a null, a text, a short array, no wind
PayloadRagged ==
  MkPayload(<<"bad", "ok", "ok">>, <<JNum(9), JNull, JNum(4)>>,
            <<JNum(9), JStr, JNum(8)>>, <<JNum(9), JNum(1)>>, <<>>,
            Nums(<<7, 5, 3>>))

Templates ==
  { MkResp("response", 200, TRUE, "", PayloadFull),
    MkResp("response", 200, TRUE, "", PayloadRagged),
    MkResp("response", 200, FALSE, "", EmptyDict),
    MkResp("response", 400, TRUE, "out of range", EmptyDict),
    MkResp("response", 500, FALSE, "", EmptyDict),
    MkResp("exception", 0, FALSE, "", EmptyDict) }

(***************************************************************************)
(* _historical_fallback_from_archive                                       *)
(***************************************************************************)
\* the loop over candidate_years, lines 214-234; q holds the arguments, rs the
\* upstream's answer to the request of the i-th candidate year
RECURSIVE YearLoop(_, _, _)
YearLoop(q, i, acc) ==
  IF i > q.years_back THEN acc
  ELSE LET y == q.today.year - i
           ms == safe_replace_year(q.start, y)
           me == safe_replace_year(q.end, y)
       IN IF ~ms.some \/ ~me.some THEN [acc EXCEPT !.raised = "ValueError"]
          ELSE IF DateLT(me.v, ms.v)
          THEN YearLoop(q, i + 1, [acc EXCEPT !.skipped = Append(@, y)])
          ELSE LET r == fetch_openmeteo_daily(ARCHIVE_BASE_URL, Src("archive-", y),
                          q.coords, ms.v, me.v, acc.cache, q.has_cache, q.t,
                          q.include_raw, Upstream(q.rs[i], ms.v), y)
               IN YearLoop(q, i + 1,
                    [acc EXCEPT
                       !.cache = r.cache,
                       !.logs = Append(@, r.log),
                       !.yearly = IF r.raised = ""
                                  THEN Append(@, [year |-> y, prof |-> r.profile])
                                  ELSE @])

\* Years in ascending order
YearsAscending(yearly) ==
  [i \in 1..Len(yearly) |-> yearly[Len(yearly) + 1 - i].year]

\* [y for y, _ in yearly_profiles]
Years(yearly) == [i \in 1..Len(yearly) |-> yearly[i].year]

\* the outcome of a call: the exception raised ("" for none) with what it
\* carries, the backend chosen, the profile returned, the cache afterwards, the
\* fetches made, the years skipped and the yearly profiles aggregated
Outcome(raised, status, reason, succeeded, need, chosen, profile, c, logs, skipped, yearly) ==
  [raised |-> raised, status |-> status, reason |-> reason,
   succeeded |-> succeeded, need |-> need, chosen |-> chosen,
   profile |-> profile, cache |-> c, logs |-> logs, skipped |-> skipped,
   yearly |-> yearly]

\* the profile of lines 280-301
FallbackProfile(requested_start, requested_end, yearly) ==
  LET agg_days == AggDays(yearly, date_range_inclusive(requested_start, requested_end))
      profile == [WeatherProfile(requested_start, requested_end, agg_days, EmptyDict)
                    EXCEPT !.source = Src("historical_fallback", 0),
                           !.is_estimate = TRUE,
                           !.reference_years = Years(yearly)]
  IN WithAggregates(profile)

\* Insufficient with the comparison off by one
InsufficientOffByOne(n, min_years) == n <= min_years

\* line 236
Insufficient(n, min_years) == n < min_years

historical_fallback_from_archive(coords, requested_start, requested_end, c, has_cache, t, include_raw, years_back, min_years, rs, tod) ==
  LET q == [coords |-> coords, start |-> requested_start, end |-> requested_end,
            has_cache |-> has_cache, t |-> t, include_raw |-> include_raw,
            years_back |-> years_back, rs |-> rs, today |-> tod]
      acc == YearLoop(q, 1, [cache |-> c, logs |-> <<>>, yearly |-> <<>>,
                             skipped |-> <<>>, raised |-> ""])
      n == Len(acc.yearly)
  IN IF acc.raised # ""
     THEN Outcome(acc.raised, 0, "", 0, 0, "historical_fallback", NoProfile,
                  acc.cache, acc.logs, acc.skipped, <<>>)
     ELSE IF Insufficient(n, min_years)
     THEN Outcome("InsufficientHistory", 0, "", n, min_years,
                  "historical_fallback", NoProfile, acc.cache, acc.logs,
                  acc.skipped, <<>>)
     ELSE Outcome("", 0, "", 0, 0, "historical_fallback",
                  FallbackProfile(requested_start, requested_end, acc.yearly),
                  acc.cache, acc.logs, acc.skipped, acc.yearly)

(***************************************************************************)
(* get_weather_profile                                                     *)
(***************************************************************************)
Modes == {"auto", "forecast", "archive", "historical_fallback"}

\* Chosen with the horizon day itself left to the fallback
ChosenStrictHorizon(mode, end, tod) ==
  IF mode = "auto"
  THEN IF DateLT(end, tod) THEN "archive"
       ELSE IF DateLT(end, AddDays(tod, MAX_FORECAST_DAYS)) THEN "forecast"
       ELSE "historical_fallback"
  ELSE mode

\* Chosen with a range that ends today sent to the archive
ChosenTodayIsPast(mode, end, tod) ==
  IF mode = "auto"
  THEN IF DateLE(end, tod) THEN "archive"
       ELSE IF DateLE(end, AddDays(tod, MAX_FORECAST_DAYS)) THEN "forecast"
       ELSE "historical_fallback"
  ELSE mode

\* Chosen with an explicit mode overridden when the dates do not fit it
ChosenSensible(mode, end, tod) ==
  LET auto == IF DateLT(end, tod) THEN "archive"
              ELSE IF DateLE(end, AddDays(tod, MAX_FORECAST_DAYS)) THEN "forecast"
              ELSE "historical_fallback"
  IN IF mode = "auto" THEN auto
     ELSE IF mode = "forecast" /\ auto = "archive" THEN auto
     ELSE IF mode = "archive" /\ auto # "archive" THEN auto
     ELSE mode

\* lines 85-95
Chosen(mode, end, tod) ==
  IF mode = "auto"
  THEN IF DateLT(end, tod) THEN "archive"
       ELSE IF DateLE(end, AddDays(tod, MAX_FORECAST_DAYS)) THEN "forecast"
       ELSE "historical_fallback"
  ELSE mode

\* the outcome of one fetch as the outcome of the call
Direct(chosen, r) ==
  Outcome(r.raised, r.status, r.reason, 0, 0, chosen, r.profile, r.cache,
          <<r.log>>, <<>>, <<>>)

\* Validate with the mode checked before the range
ValidateModeFirst(a) ==
  IF a.mode \notin Modes THEN "InvalidMode"
  ELSE IF DateLT(a.end, a.start) THEN "InvalidRange"
  ELSE ""

\* the two argument checks, lines 76-83: the ValueError raised, "" for none
Validate(a) ==
  IF DateLT(a.end, a.start) THEN "InvalidRange"
  ELSE IF a.mode \notin Modes THEN "InvalidMode"
  ELSE ""

get_weather_profile(a, c, t, tod, rs) ==
  IF Validate(a) # ""
  THEN Outcome(Validate(a), 0, "", 0, 0, "", NoProfile, c, <<>>, <<>>, <<>>)
  ELSE LET chosen == Chosen(a.mode, a.end, tod)
       IN IF chosen = "forecast"
          THEN Direct(chosen,
                 fetch_openmeteo_daily(FORECAST_BASE_URL, Src("forecast", 0),
                   a.coords, a.start, a.end, c, a.has_cache, t, a.include_raw,
                   Upstream(rs[1], a.start), 0))
          ELSE IF chosen = "archive"
          THEN Direct(chosen,
                 fetch_openmeteo_daily(ARCHIVE_BASE_URL, Src("archive", 0),
                   a.coords, a.start, a.end, c, a.has_cache, t, a.include_raw,
                   Upstream(rs[1], a.start), 0))
          ELSE historical_fallback_from_archive(a.coords, a.start, a.end, c,
                 a.has_cache, t, a.include_raw, a.fallback_years_back,
                 a.fallback_min_years, rs, tod)

(***************************************************************************)
(* The callers' inputs                                                     *)
(***************************************************************************)
Args(coords, start, end, has_cache, include_raw, mode, years_back, min_years) ==
  [coords |-> coords, start |-> start, end |-> end, has_cache |-> has_cache,
   include_raw |-> include_raw, mode |-> mode,
   fallback_years_back |-> years_back, fallback_min_years |-> min_years]

Todays == {MkDate(2026, 11, 5), MkDate(2026, 12, 20)}

Munich == [lat |-> 48137154, lon |-> 11576124]

\* differs from Munich in the sixth decimal only
MunichNear == [lat |-> 48137151, lon |-> 11576124]

Berlin == [lat |-> 52520008, lon |-> 13404954]

Range(s, e) == [start |-> s, end |-> e]

Off(tod, i, j) == Range(AddDays(tod, i), AddDays(tod, j))

\* ranges around today and around the forecast horizon, two of them invalid
NearRanges(tod) ==
  { Off(tod, -3, -1), Off(tod, -1, 0), Off(tod, 0, 0), Off(tod, 15, 16),
    Off(tod, -1, 16), Off(tod, 16, 17), Off(tod, -2, 17),
    Off(tod, 0, -1), Off(tod, 18, 17) }

\* a range beyond the horizon
Far(tod) == Off(tod, 17, 18)

\* the same days one year before today's year
Twin(tod) ==
  Range(safe_replace_year(Far(tod).start, tod.year - 1).v,
        safe_replace_year(Far(tod).end, tod.year - 1).v)

\* New Year's Eve to New Year's Day
YearCross(tod) == Range(MkDate(tod.year, 12, 31), MkDate(tod.year + 1, 1, 1))

ClassifyArgs(tod) ==
  { Args(Munich, r.start, r.end, TRUE, FALSE, m, 1, 1) :
      r \in NearRanges(tod), m \in Modes \cup {"hourly"} }

FallbackArgs(tod) ==
  { Args(Munich, r.start, r.end, TRUE, FALSE, "historical_fallback", yb, my) :
      r \in {Far(tod), YearCross(tod)}, yb \in 0..MaxYearsBack,
      my \in 0..MaxYearsBack }

CacheArgs(tod) ==
  { Args(Munich, Twin(tod).start, Twin(tod).end, o[1], o[2], m, 1, 1) :
      o \in {<<TRUE, FALSE>>, <<TRUE, TRUE>>, <<FALSE, FALSE>>},
      m \in {"forecast", "archive"} }
  \cup
  { Args(c, Twin(tod).start, Twin(tod).end, TRUE, FALSE, m, 1, 1) :
      c \in {MunichNear, Berlin}, m \in {"forecast", "archive"} }

\* the calls made, each with the answers the upstream may give to it: the
\* calls that probe the classification get a success or an error status, the
\* years of a synthesis every kind of answer with one kind of error status,
\* the others every kind of answer
FewTemplates == { t \in Templates : t.status = 400 \/ t.payload = PayloadFull }

YearTemplates == { t \in Templates : t.status # 500 }

Inputs(tod) ==
  { [args |-> a, templates |-> FewTemplates] : a \in ClassifyArgs(tod) }
  \cup
  { [args |-> a, templates |-> YearTemplates] : a \in FallbackArgs(tod) }
  \cup
  { [args |-> a, templates |-> Templates] : a \in CacheArgs(tod) }

\* how many upstream answers a call can consume
NumFetches(a, tod) ==
  IF DateLT(a.end, a.start) \/ a.mode \notin Modes THEN 0
  ELSE IF Chosen(a.mode, a.end, tod) = "historical_fallback"
  THEN IF \A i \in 1..a.fallback_years_back :
            DateLT(safe_replace_year(a.end, tod.year - i).v,
                   safe_replace_year(a.start, tod.year - i).v)
       THEN 0
       ELSE a.fallback_years_back
  ELSE 1


(***************************************************************************)
(* State: today's date, the clock, the cache directory, the number of      *)
(* calls made, and the last two calls with their outcomes.                 *)
(***************************************************************************)
CallRecord(n, a, t, out) ==
  [n |-> n, args |-> a, at |-> t, raised |-> out.raised, status |-> out.status,
   reason |-> out.reason, succeeded |-> out.succeeded, need |-> out.need,
   chosen |-> out.chosen, profile |-> out.profile, logs |-> out.logs,
   skipped |-> out.skipped, yearly |-> out.yearly]

NoCall ==
  CallRecord(0, Args(Munich, MkDate(0, 0, 0), MkDate(0, 0, 0), FALSE, FALSE, "", 0, 0),
             0,
             Outcome("", 0, "", 0, 0, "", NoProfile, <<>>, <<>>, <<>>, <<>>))

Init ==
  /\ today \in Todays
  /\ now = 0
  /\ cache = <<>>
  /\ calls = 0
  /\ last = NoCall
  /\ prev = NoCall
  \* the bench of the specifications of single functions stays idle
  /\ lab = [op |-> "idle"]

\* one call of get_weather_profile, with the answers the upstream gives it
GetWeatherProfile ==
  /\ calls < MaxCalls
  /\ \E inp \in Inputs(today) :
       \E rs \in [1..NumFetches(inp.args, today) -> inp.templates] :
         LET out == get_weather_profile(inp.args, cache, now, today, rs)
         IN /\ cache' = out.cache
            /\ last' = CallRecord(calls + 1, inp.args, now, out)
            /\ prev' = last
            /\ calls' = calls + 1
  /\ UNCHANGED <<today, now, lab>>

\* time passes between two calls; the clock counts from the first call, which
\* finds the cache directory empty
Tick ==
  /\ 0 < calls /\ calls < MaxCalls
  /\ now < MaxTicks * TickSeconds
  /\ now' = now + TickSeconds
  /\ UNCHANGED <<today, cache, calls, last, prev, lab>>

Next == GetWeatherProfile \/ Tick

Spec == Init /\ [][Next]_vars

(***************************************************************************)
(* Properties                                                              *)
(***************************************************************************)
\* the number of the day d in the proleptic Gregorian calendar
DayNumber(d) ==
  LET y == d.year - 1
      before == [m \in 1..12 |->
                   IF m = 1 THEN 0
                   ELSE IF m = 2 THEN 31
                   ELSE (IF IsLeap(d.year) THEN 60 ELSE 59)
                        + (153 * (m - 3) + 2) \div 5]
  IN 365 * y + y \div 4 - y \div 100 + y \div 400 + before[d.month] + d.day

Called == last.n > 0

ValidRange(call) == DayNumber(call.args.start) <= DayNumber(call.args.end)

\* the backend a call went to: the endpoint and source tag of its fetches
WentTo(call, backend) ==
  CASE backend = "forecast" ->
         /\ Len(call.logs) = 1
         /\ call.logs[1].url = FORECAST_BASE_URL
         /\ call.logs[1].key[1] = Src("forecast", 0)
         /\ call.raised = "" => call.profile.source = Src("forecast", 0)
    [] backend = "archive" ->
         /\ Len(call.logs) = 1
         /\ call.logs[1].url = ARCHIVE_BASE_URL
         /\ call.logs[1].key[1] = Src("archive", 0)
         /\ call.raised = "" => call.profile.source = Src("archive", 0)
    [] OTHER ->
         /\ \A i \in 1..Len(call.logs) :
              /\ call.logs[i].url = ARCHIVE_BASE_URL
              /\ call.logs[i].key[1].base = "archive-"
         /\ Len(call.logs) + Len(call.skipped) = call.args.fallback_years_back
         /\ call.raised = "" => call.profile.source = Src("historical_fallback", 0)

\* C1: in auto mode a valid range goes to the archive if it ends before
\* today, to the forecast if it ends at most 16 days after today, and to the
\* historical fallback otherwise; the choice is a function of today and end.
C1_AutoRule ==
  (Called /\ last.args.mode = "auto" /\ ValidRange(last)) =>
    LET e == DayNumber(last.args.end)
        t == DayNumber(today)
        expect == IF e < t THEN "archive"
                  ELSE IF e <= t + 16 THEN "forecast"
                  ELSE "historical_fallback"
    IN last.chosen = expect /\ WentTo(last, expect)

\* an auto call whose range starts in the past and ends on the horizon day
C1_Witness ==
  /\ Called /\ last.args.mode = "auto"
  /\ DayNumber(last.args.start) < DayNumber(today)
  /\ DayNumber(last.args.end) = DayNumber(today) + 16
  /\ last.chosen = "forecast"
  /\ last.raised = ""

\* C2 as stated: in auto mode every valid range with end <= today + 16 days
\* goes to the forecast.
C2_Original ==
  (Called /\ last.args.mode = "auto" /\ ValidRange(last)
     /\ DayNumber(last.args.end) <= DayNumber(today) + 16)
  => last.chosen = "forecast"

\* C2 amended: in auto mode every valid range with today <= end <= today + 16
\* days goes to the forecast (a range that ends before today goes to the
\* archive).
C2_ForecastWindow ==
  (Called /\ last.args.mode = "auto" /\ ValidRange(last)
     /\ DayNumber(today) <= DayNumber(last.args.end)
     /\ DayNumber(last.args.end) <= DayNumber(today) + 16)
  => (last.chosen = "forecast" /\ last.logs[1].url = FORECAST_BASE_URL)

\* an auto call whose range starts in the past and ends today
C2_Witness ==
  /\ Called /\ last.args.mode = "auto"
  /\ DayNumber(last.args.start) < DayNumber(today)
  /\ last.args.end = today
  /\ last.chosen = "forecast"

\* C3: an explicit mode is the chosen backend whatever the dates are.
C3_ExplicitModeVerbatim ==
  (Called /\ ValidRange(last)
     /\ last.args.mode \in {"forecast", "archive", "historical_fallback"})
  => (last.chosen = last.args.mode /\ WentTo(last, last.args.mode))

\* mode archive on a range that ends beyond the horizon, after a call with
\* mode forecast on a range that lies in the past
C3_Witness ==
  /\ Called /\ last.args.mode = "archive"
  /\ DayNumber(last.args.end) > DayNumber(today) + 16
  /\ last.chosen = "archive" /\ last.logs[1].url = ARCHIVE_BASE_URL
  /\ prev.n > 0 /\ prev.args.mode = "forecast"
  /\ DayNumber(prev.args.end) < DayNumber(today)
  /\ prev.chosen = "forecast" /\ prev.logs[1].url = FORECAST_BASE_URL

\* C4: a call with end < start fails with InvalidRange whatever the mode is,
\* before any cache read, cache write or upstream request.
C4_InvalidRangeFirst ==
  [][(calls' = calls + 1 /\ DayNumber(last'.args.end) < DayNumber(last'.args.start))
       => (/\ last'.raised = "InvalidRange"
           /\ last'.logs = <<>>
           /\ last'.chosen = ""
           /\ cache' = cache)]_vars

\* a call with an unrecognized mode and end < start, made on a filled cache
C4_Witness ==
  /\ Called /\ last.args.mode = "hourly"
  /\ DayNumber(last.args.end) < DayNumber(last.args.start)
  /\ last.raised = "InvalidRange"
  /\ cache # <<>>

Returned == Called /\ last.raised = ""

\* C5 as stated: every returned profile has is_estimate true exactly when its
\* source is historical_fallback and reference_years non-empty exactly when
\* is_estimate is true; the per-year tag is never the source.
C5_Original ==
  Returned =>
    /\ last.profile.is_estimate <=> (last.profile.source = Src("historical_fallback", 0))
    /\ (last.profile.reference_years # <<>>) <=> last.profile.is_estimate
    /\ last.profile.source.base # "archive-"

\* C6 as stated: a profile returned on the forecast or archive path carries
\* the range aggregates of its own day list.
C6_Original ==
  (Returned /\ last.chosen \in {"forecast", "archive"}) =>
    last.profile = WithAggregates(last.profile)

OkCount(call) ==
  Cardinality({i \in 1..Len(call.logs) : call.logs[i].raised = ""})

\* C7: the fallback fails with InsufficientHistory exactly when fewer than
\* min_years fetches succeeded, the error carries both numbers, otherwise it
\* returns a profile, and every candidate year is visited whichever years
\* fail.
C7_InsufficientHistory ==
  (Called /\ last.chosen = "historical_fallback") =>
    /\ (last.raised = "InsufficientHistory")
         <=> (OkCount(last) < last.args.fallback_min_years)
    /\ last.raised = "InsufficientHistory" =>
         /\ last.succeeded = OkCount(last)
         /\ last.need = last.args.fallback_min_years
    /\ OkCount(last) >= last.args.fallback_min_years => last.raised = ""
    /\ Len(last.logs) + Len(last.skipped) =
         (IF last.args.fallback_years_back > 0
          THEN last.args.fallback_years_back ELSE 0)

\* a synthesis that succeeds although the first year failed, after one that
\* failed with 1 year of the 2 it needed
C7_Witness ==
  /\ Returned /\ last.chosen = "historical_fallback"
  /\ Len(last.logs) = 2
  /\ last.logs[1].raised = "RequestException" /\ last.logs[2].raised = ""
  /\ prev.raised = "InsufficientHistory"
  /\ prev.succeeded = 1 /\ prev.need = 2
  /\ prev.logs[1].raised = "UpstreamError"

\* C8: on a successful synthesis reference_years lists the candidate years
\* whose fetch succeeded, in the order visited (descending from last year),
\* without the years that failed or were skipped, and these are the years
\* whose day lists were aggregated.
C8_ReferenceYears ==
  (Returned /\ last.chosen = "historical_fallback") =>
    LET IsOk(l) == l.raised = ""
        ok == SelectSeq(last.logs, IsOk)
        ry == last.profile.reference_years
    IN /\ Len(ry) = Len(ok)
       /\ \A i \in 1..Len(ry) :
            /\ ry[i] = ok[i].year
            /\ ry[i] \in (today.year - last.args.fallback_years_back)..(today.year - 1)
            /\ last.yearly[i].year = ry[i]
       /\ \A i, j \in 1..Len(ry) : i < j => ry[i] > ry[j]
       /\ \A i \in 1..Len(last.logs) :
            last.logs[i].raised # "" => \A j \in 1..Len(ry) : ry[j] # last.logs[i].year
       /\ \A i \in 1..Len(last.skipped) :
            \A j \in 1..Len(ry) : ry[j] # last.skipped[i]
       /\ Len(last.yearly) = Len(ry)
       /\ last.profile.days =
            AggDays(last.yearly, date_range_inclusive(last.args.start, last.args.end))

\* a synthesis from two years, after one whose first year failed
C8_Witness ==
  /\ Returned /\ last.chosen = "historical_fallback"
  /\ last.profile.reference_years = <<today.year - 1, today.year - 2>>
  /\ prev.raised = "" /\ prev.chosen = "historical_fallback"
  /\ Len(prev.logs) = 2 /\ prev.logs[1].raised = "JSONDecodeError"
  /\ prev.profile.reference_years = <<today.year - 2>>

\* two consecutive resolutions with the same rounded coordinates, dates and
\* backend that share a cache, the first of which returned a profile
SameResolution ==
  /\ prev.n > 0 /\ Called
  /\ prev.raised = ""
  /\ prev.args.has_cache /\ last.args.has_cache
  /\ Fmt5(prev.args.coords.lat) = Fmt5(last.args.coords.lat)
  /\ Fmt5(prev.args.coords.lon) = Fmt5(last.args.coords.lon)
  /\ prev.args.start = last.args.start /\ prev.args.end = last.args.end
  /\ prev.chosen = last.chosen
  /\ prev.args.fallback_years_back = last.args.fallback_years_back

\* the second resolution found no entry past its TTL
WithinTTL == \A i \in 1..Len(last.logs) : ~last.logs[i].expired

Keys(call) == [i \in 1..Len(call.logs) |-> call.logs[i].key]

SameFetch(f, g) ==
  /\ f.url = g.url
  /\ Fmt5(f.params.latitude) = Fmt5(g.params.latitude)
  /\ Fmt5(f.params.longitude) = Fmt5(g.params.longitude)
  /\ f.params.start_date = g.params.start_date
  /\ f.params.end_date = g.params.end_date

\* C10 as stated: the key is a function of the endpoint, the rounded
\* coordinates and the dates only, so that of two such fetches, from the
\* archive path or from the synthesizer, the second hits the entry the first
\* wrote; fetches that differ in one of these never share a key.
C10_Original ==
  \A i \in 1..Len(prev.logs) : \A j \in 1..Len(last.logs) :
    LET f == prev.logs[i]
        g == last.logs[j]
    IN /\ SameFetch(f, g) => f.key = g.key
       /\ ~SameFetch(f, g) => f.key # g.key
       /\ (SameFetch(f, g) /\ f.set /\ g.get /\ last.at - prev.at <= ttl_seconds)
            => g.hit

\* a forecast or archive resolution whose one fetch missed the cache and got
\* an answer with a status of 400 or more
ErrorAnswered(call) ==
  /\ call.n > 0 /\ ValidRange(call)
  /\ call.chosen \in {"forecast", "archive"}
  /\ Len(call.logs) >= 1
  /\ call.logs[1].request
  /\ call.logs[1].answer.kind = "response"
  /\ call.logs[1].answer.status >= 400

\* the keys whose entry a step wrote
Written == {k \in DOMAIN cache' : k \notin DOMAIN cache \/ cache'[k] # cache[k]}

\* C11: a forecast or archive fetch that misses the cache and is answered
\* with a status >= 400 fails with the UpstreamError of that status and of the
\* body's reason text (none when the body has none); the call sent exactly
\* one request and wrote nothing to the cache, so that an identical call
\* after it misses the cache and asks the backend again.  Every entry that a
\* call writes comes from a fetch of that call that was answered with a
\* success.
C11_ErrorsNotCached ==
  [][ calls' = calls + 1 =>
        /\ ErrorAnswered(last') =>
             /\ last'.raised = "UpstreamError"
             /\ last'.status = last'.logs[1].answer.status
             /\ last'.reason = (IF last'.logs[1].answer.json
                                THEN last'.logs[1].answer.reason ELSE "")
             /\ Len(last'.logs) = 1
             /\ ~last'.logs[1].hit /\ ~last'.logs[1].set
             /\ cache' = cache
        /\ (ErrorAnswered(last) /\ last'.args = last.args) =>
             /\ ~last'.logs[1].hit
             /\ last'.logs[1].request
        /\ \A k \in Written :
             \E i \in 1..Len(last'.logs) :
               /\ last'.logs[i].key = k
               /\ last'.logs[i].set /\ last'.logs[i].request
               /\ last'.logs[i].raised = ""
               /\ last'.logs[i].answer.kind = "response"
               /\ last'.logs[i].answer.status < 400
               /\ last'.logs[i].answer.json ]_vars

\* a cached fetch was answered 400 with a reason, and the identical call
\* after it asked the backend again
C11_Witness ==
  /\ ErrorAnswered(prev) /\ prev.args.has_cache
  /\ prev.raised = "UpstreamError" /\ prev.status = 400
  /\ prev.reason = "out of range"
  /\ Called /\ last.args = prev.args
  /\ last.logs[1].get /\ last.logs[1].request

(***************************************************************************)
(* The functions of the service one at a time.  lab holds the name of the  *)
(* function (op), its arguments (in), whether it has run (done) and what   *)
(* it gave (out); the arguments are drawn when the bench is set up.        *)
(***************************************************************************)
Job(op, in) == [op |-> op, in |-> in, done |-> FALSE, out |-> [none |-> TRUE]]

LabToday == MkDate(2026, 11, 5)

\* no day at all
PayloadNone == MkPayload(<<>>, <<>>, <<>>, <<>>, <<>>, <<>>)

\* three days with nulls in different places
PayloadLong ==
  MkPayload(<<"ok", "ok", "ok">>, <<JNum(4), JNull, JNum(2)>>,
            <<JNum(6), JNum(7), JNull>>, <<JNum(2), JNull, JNum(1)>>,
            <<JNull, JNull, JNum(30)>>, <<JNum(5), JNull, JNum(7)>>)

\* two days, every field null
PayloadBlank ==
  MkPayload(<<"ok", "ok">>, <<JNull, JNull>>, <<JNull, JNull>>,
            <<JNull, JNull>>, <<JNull, JNull>>, <<JNull, JNull>>)

\* one day that carries a weather code only
PayloadCode(code) ==
  MkPayload(<<"ok">>, <<JNull>>, <<JNull>>, <<JNull>>, <<JNull>>, <<code>>)

Ok200(payload) == MkResp("response", 200, TRUE, "", payload)

Err400 == MkResp("response", 400, TRUE, "out of range", EmptyDict)

\* answers of the archive to one year of a synthesis: day lists of zero to
\* three days, or a failure
SynthTemplates ==
  { Ok200(PayloadFull), Ok200(PayloadRagged), Ok200(PayloadNone),
    Ok200(PayloadLong), Ok200(PayloadBlank), Err400 }

CodeTemplates ==
  { Ok200(PayloadCode(JNum(3))), Ok200(PayloadCode(JNum(5))),
    Ok200(PayloadCode(JNull)), Err400 }

SynthIn(start, end, years_back, min_years, rs) ==
  [start |-> start, end |-> end, years_back |-> years_back,
   min_years |-> min_years, rs |-> rs]

\* syntheses of one to MaxDays days from up to MaxYearsBack years, and
\* syntheses of one day from MaxCodeYears years that report codes
SynthJobs ==
  { Job("synth", SynthIn(AddDays(LabToday, 17), AddDays(LabToday, 16 + k),
                         MaxYearsBack, my, rs)) :
      k \in 1..MaxDays, my \in 0..1, rs \in [1..MaxYearsBack -> SynthTemplates] }
  \cup
  { Job("synth", SynthIn(AddDays(LabToday, 17), AddDays(LabToday, 17),
                         MaxCodeYears, 1, rs)) :
      rs \in [1..MaxCodeYears -> CodeTemplates] }

\* dates at the ends of months and years, two leap days
LabDates ==
  { MkDate(2024, 2, 29), MkDate(2000, 2, 29), MkDate(2026, 2, 28),
    MkDate(2027, 1, 1), MkDate(2026, 3, 31), MkDate(2026, 4, 30),
    MkDate(2026, 12, 31), MkDate(2026, 11, 22) }

\* target years: leap and not, the first and the last year of datetime.date
\* and the years next to them
LabYears == {0, 1, 4, 1900, 2000, 2023, 2024, 2025, 9999, 10000}

ReplaceJobs ==
  { Job("replace_year", [d |-> d, year |-> y]) : d \in LabDates, y \in LabYears }

\* the sequences over S of length at most n
SeqsUpTo(S, n) == UNION {[1..k -> S] : k \in 0..n}

\* the values an entry of a field array may be
JVals == {JNull, JNum(1), JStr, JNumStr(2), JBool(TRUE), JList}

\* payloads of up to MaxDays entries of "time", dates or not, and field
\* arrays of up to MaxDays values; the arrays of one payload differ in length
ParseJobs ==
  { Job("parse",
        [data |-> MkPayload(TimeArray(fl, AddDays(LabToday, 17)), arr, arr,
                            IF arr = <<>> THEN arr ELSE Tail(arr), <<>>, arr),
         start |-> AddDays(LabToday, 17),
         end |-> AddDays(LabToday, 16 + MaxDays),
         include_raw |-> raw]) :
      fl \in SeqsUpTo({"ok", "bad"}, MaxDays), arr \in SeqsUpTo(JVals, MaxDays),
      raw \in {FALSE} }

InitLab ==
  /\ today = LabToday
  /\ now = 0
  /\ cache = <<>>
  /\ calls = 0
  /\ last = NoCall
  /\ prev = NoCall
  /\ \/ lab \in SynthJobs
     \/ lab \in ReplaceJobs
     \/ lab \in ParseJobs

\* _historical_fallback_from_archive on the arguments on the bench
Synthesize ==
  /\ lab.op = "synth" /\ ~lab.done
  /\ lab' = [lab EXCEPT
       !.done = TRUE,
       !.out = historical_fallback_from_archive(Munich, lab.in.start, lab.in.end,
                 cache, FALSE, now, FALSE, lab.in.years_back, lab.in.min_years,
                 lab.in.rs, today)]
  /\ UNCHANGED <<today, now, cache, calls, last, prev>>

\* _safe_replace_year on the arguments on the bench
ReplaceYear ==
  /\ lab.op = "replace_year" /\ ~lab.done
  /\ lab' = [lab EXCEPT !.done = TRUE,
                        !.out = safe_replace_year(lab.in.d, lab.in.year)]
  /\ UNCHANGED <<today, now, cache, calls, last, prev>>

\* _profile_from_openmeteo on the arguments on the bench
Parse ==
  /\ lab.op = "parse" /\ ~lab.done
  /\ lab' = [lab EXCEPT
       !.done = TRUE,
       !.out = profile_from_openmeteo(lab.in.data, lab.in.start, lab.in.end,
                                      lab.in.include_raw)]
  /\ UNCHANGED <<today, now, cache, calls, last, prev>>

NextLab ==
  \/ Synthesize
  \/ ReplaceYear
  \/ Parse

SpecLab == InitLab /\ [][NextLab]_vars

\* a synthesis that returned a profile
Synthesized == lab.op = "synth" /\ lab.done /\ lab.out.raised = ""

DayFields == {"temp_min_c", "temp_max_c", "precipitation_mm", "wind_max_kmh"}

\* the years, of those that succeeded, with a value for field f at position i
Contributors(yearly, i, f) ==
  {k \in 1..Len(yearly) :
     i <= Len(yearly[k].prof.days) /\ yearly[k].prof.days[i][f].some}

\* the sum of g over the first n indices
RECURSIVE SumTo(_, _)
SumTo(g, n) == IF n = 0 THEN 0 ELSE g[n] + SumTo(g, n - 1)

RECURSIVE ProdTo(_, _)
ProdTo(g, n) == IF n = 0 THEN 1 ELSE g[n] * ProdTo(g, n - 1)

\* the fraction x is s / c
IsQuotient(x, s, c) == x.d > 0 /\ c > 0 /\ x.n * c = s * x.d

\* C12: the synthesized profile has one day for each date from
\* requested_start to requested_end, in ascending order and with these dates;
\* each of the four measured fields of the day at position i is the
\* arithmetic mean of the values that the successful years have at position i
\* (a year with a shorter day list or without the value does not count), and
\* is absent exactly when no year has one.
C12_SynthesizedDays ==
  Synthesized =>
    LET days == lab.out.profile.days
        yearly == lab.out.yearly
        n == DayNumber(lab.in.end) - DayNumber(lab.in.start) + 1
    IN /\ Len(days) = n
       /\ \A i \in 1..n :
            /\ IsValidDate(days[i].date.year, days[i].date.month, days[i].date.day)
            /\ DayNumber(days[i].date) = DayNumber(lab.in.start) + i - 1
            /\ \A f \in DayFields :
                 LET cs == Contributors(yearly, i, f)
                     g == [k \in 1..Len(yearly) |->
                             IF k \in cs THEN yearly[k].prof.days[i][f].v.n ELSE 0]
                 IN /\ days[i][f].some <=> cs # {}
                    /\ days[i][f].some =>
                         IsQuotient(days[i][f].v, SumTo(g, Len(yearly)), Cardinality(cs))

\* a three-day synthesis from a year of two days and a year of three: the
\* third day has the values of the longer year alone, the first the mean of two
C12_Witness ==
  /\ Synthesized
  /\ Len(lab.out.profile.days) = 3
  /\ Len(lab.out.yearly) = 2
  /\ Len(lab.out.yearly[1].prof.days) = 2
  /\ Len(lab.out.yearly[2].prof.days) = 3
  /\ Contributors(lab.out.yearly, 1, "temp_min_c") = {1, 2}
  /\ lab.out.profile.days[1].temp_min_c = Some(Frac(5, 2))
  /\ Contributors(lab.out.yearly, 3, "temp_min_c") = {2}
  /\ lab.out.profile.days[3].temp_min_c = Some(Frac(2, 1))
  /\ ~lab.out.profile.days[3].temp_max_c.some

\* the days of a day list that carry field f
Carrying(days, f) == {i \in 1..Len(days) : days[i][f].some}

\* C13: in the aggregates of a fallback profile precip_total_mm is absent
\* when no day has a precipitation value and is the sum of the values that
\* are present otherwise; rainy_days is the number of days whose
\* precipitation is present and at least 1.0; temp_min_c, temp_max_c and
\* wind_max_kmh are absent exactly when no day carries the field (and are the
\* least or greatest value of the days otherwise); aggregating the days of
\* the profile again gives the same aggregates.
C13_Aggregates ==
  Synthesized =>
    LET p == lab.out.profile
        days == p.days
        n == Len(days)
        wet == Carrying(days, "precipitation_mm")
        den == [i \in 1..n |-> IF i \in wet THEN days[i].precipitation_mm.v.d ELSE 1]
        all == ProdTo(den, n)
        num == [i \in 1..n |->
                  IF i \in wet
                  THEN days[i].precipitation_mm.v.n * (all \div den[i]) ELSE 0]
        Agg(f, g) == days[g][f].v
    IN /\ p.precip_total_mm.some <=> wet # {}
       /\ p.precip_total_mm.some => IsQuotient(p.precip_total_mm.v, SumTo(num, n), all)
       /\ p.rainy_days.some
       /\ p.rainy_days.v =
            Cardinality({i \in wet : days[i].precipitation_mm.v.n >=
                                     days[i].precipitation_mm.v.d})
       /\ p.temp_min_c.some <=> Carrying(days, "temp_min_c") # {}
       /\ p.temp_max_c.some <=> Carrying(days, "temp_max_c") # {}
       /\ p.wind_max_kmh.some <=> Carrying(days, "wind_max_kmh") # {}
       /\ p.temp_min_c.some =>
            /\ \E i \in Carrying(days, "temp_min_c") : Agg("temp_min_c", i) = p.temp_min_c.v
            /\ \A i \in Carrying(days, "temp_min_c") : ~FracLT(Agg("temp_min_c", i), p.temp_min_c.v)
       /\ p.temp_max_c.some =>
            /\ \E i \in Carrying(days, "temp_max_c") : Agg("temp_max_c", i) = p.temp_max_c.v
            /\ \A i \in Carrying(days, "temp_max_c") : ~FracLT(p.temp_max_c.v, Agg("temp_max_c", i))
       /\ p.wind_max_kmh.some =>
            /\ \E i \in Carrying(days, "wind_max_kmh") : Agg("wind_max_kmh", i) = p.wind_max_kmh.v
            /\ \A i \in Carrying(days, "wind_max_kmh") : ~FracLT(p.wind_max_kmh.v, Agg("wind_max_kmh", i))
       /\ WithAggregates(p) = p

\* a profile of two days, none of which has a precipitation value: the total
\* is absent and no day is rainy, while the temperatures are present
C13_Witness ==
  /\ Synthesized
  /\ Len(lab.out.profile.days) = 2
  /\ Carrying(lab.out.profile.days, "precipitation_mm") = {}
  /\ ~lab.out.profile.precip_total_mm.some
  /\ lab.out.profile.rainy_days = SomeInt(0)
  /\ Len(lab.out.yearly) = 2

\* three days with the mean precipitations 1/2, 3 and absent: a total of 7/2,
\* one rainy day
C13_WitnessWet ==
  /\ Synthesized
  /\ Len(lab.out.profile.days) = 3
  /\ Carrying(lab.out.profile.days, "precipitation_mm") = {1, 2}
  /\ lab.out.profile.days[1].precipitation_mm = Some(Frac(1, 2))
  /\ lab.out.profile.days[2].precipitation_mm = Some(Frac(3, 1))
  /\ lab.out.profile.precip_total_mm = Some(Frac(7, 2))
  /\ lab.out.profile.rainy_days = SomeInt(1)

(***************************************************************************)
(* The cache file of one key under concurrent FileCache.get and            *)
(* FileCache.set.  The file is a sequence of tokens: "{", the values of    *)
(* the payload, "}"; "NUL" fills the hole a write past the end leaves.     *)
(* set opens the file for writing, which truncates it, and json.dump       *)
(* writes through the buffer of the file object: a full buffer goes to the *)
(* file at the position of this writer, the rest when the file is closed.  *)
(* get tests that the file exists, then reads and parses it; an exception  *)
(* of either is a miss.                                                    *)
(***************************************************************************)
Writers == {1, 2}

\* payloads two sets of one key may carry, as the values of their members
FilePayloads == {<<"a", "a">>, <<"b", "b">>, <<"b", "b", "b">>}

\* json.dump
Dump(payload) == <<"{">> \o payload \o <<"}">>

Miss == [some |-> FALSE, v |-> <<>>]

\* json.load of the content of the file; any exception is the miss of line 44
Load(content) ==
  IF /\ Len(content) >= 2
     /\ content[1] = "{" /\ content[Len(content)] = "}"
     /\ \A i \in 2..(Len(content) - 1) : content[i] \notin {"{", "}", "NUL"}
  THEN [some |-> TRUE, v |-> SubSeq(content, 2, Len(content) - 1)]
  ELSE Miss

\* write(2) of chunk at position pos
WriteAt(content, pos, chunk) ==
  LET n == IF Len(content) > pos + Len(chunk) THEN Len(content) ELSE pos + Len(chunk)
  IN [i \in 1..n |->
        IF pos < i /\ i <= pos + Len(chunk) THEN chunk[i - pos]
        ELSE IF i <= Len(content) THEN content[i] ELSE "NUL"]

InitFile ==
  /\ today = LabToday
  /\ now = 0
  /\ cache = <<>>
  /\ calls = 0
  /\ last = NoCall
  /\ prev = NoCall
  /\ \E p1 \in FilePayloads :
     \E p2 \in FilePayloads \ {p1} :
       lab = [op |-> "file", exists |-> FALSE, file |-> <<>>,
              w |-> [i \in Writers |->
                       [pc |-> "idle", pos |-> 0,
                        text |-> Dump(IF i = 1 THEN p1 ELSE p2)]],
              finished |-> <<>>,
              r |-> [pc |-> "idle", res |-> Miss]]

\* open(path, "w")
SetOpen(i) ==
  /\ lab.op = "file" /\ lab.w[i].pc = "idle"
  /\ lab' = [lab EXCEPT !.exists = TRUE, !.file = <<>>,
                        !.w[i].pc = "open", !.w[i].pos = 0]
  /\ UNCHANGED <<today, now, cache, calls, last, prev>>

\* json.dump fills the buffer, which goes to the file
SetWrite(i) ==
  /\ lab.op = "file" /\ lab.w[i].pc = "open"
  /\ Len(lab.w[i].text) - lab.w[i].pos > ChunkLen
  /\ lab' = [lab EXCEPT
       !.file = WriteAt(@, lab.w[i].pos,
                        SubSeq(lab.w[i].text, lab.w[i].pos + 1, lab.w[i].pos + ChunkLen)),
       !.w[i].pos = @ + ChunkLen]
  /\ UNCHANGED <<today, now, cache, calls, last, prev>>

\* the end of the with block: the rest of the buffer goes to the file
SetClose(i) ==
  /\ lab.op = "file" /\ lab.w[i].pc = "open"
  /\ Len(lab.w[i].text) - lab.w[i].pos <= ChunkLen
  /\ lab' = [lab EXCEPT
       !.file = WriteAt(@, lab.w[i].pos,
                        SubSeq(lab.w[i].text, lab.w[i].pos + 1, Len(lab.w[i].text))),
       !.w[i].pos = Len(lab.w[i].text),
       !.w[i].pc = "closed",
       !.finished = Append(@, i)]
  /\ UNCHANGED <<today, now, cache, calls, last, prev>>

\* os.path.exists
GetExists ==
  /\ lab.op = "file" /\ lab.r.pc = "idle"
  /\ lab' = [lab EXCEPT !.r.pc = IF lab.exists THEN "found" ELSE "done"]
  /\ UNCHANGED <<today, now, cache, calls, last, prev>>

\* open, json.load and the test of the timestamp, which is fresh
GetLoad ==
  /\ lab.op = "file" /\ lab.r.pc = "found"
  /\ lab' = [lab EXCEPT !.r.pc = "done", !.r.res = Load(lab.file)]
  /\ UNCHANGED <<today, now, cache, calls, last, prev>>

NextFile ==
  \/ \E i \in Writers : SetOpen(i)
  \/ \E i \in Writers : SetWrite(i)
  \/ \E i \in Writers : SetClose(i)
  \/ GetExists
  \/ GetLoad

SpecFile == InitFile /\ [][NextFile]_vars

\* the payloads the sets carry
SetPayloads == {Load(lab.w[i].text) : i \in Writers}

\* C14 as stated: a get that runs while sets of its key run returns a miss or
\* the complete payload of one of the sets, and once both sets have finished
\* the file holds the payload of the set that finished last, which a get
\* then returns.
C14_Original ==
  lab.op = "file" =>
    /\ lab.r.pc = "done" => (lab.r.res = Miss \/ lab.r.res \in SetPayloads)
    /\ Len(lab.finished) = 2 =>
         /\ lab.file = lab.w[lab.finished[2]].text
         /\ Load(lab.file) = Load(lab.w[lab.finished[2]].text)

\* the first half of C14 alone: a get never returns a mix of two payloads
C14_NoMixedRead ==
  (lab.op = "file" /\ lab.r.pc = "done") =>
    (lab.r.res = Miss \/ lab.r.res \in SetPayloads)

\* the second half of C14 alone: the last set to finish wins
C14_LastWriterWins ==
  (lab.op = "file" /\ Len(lab.finished) = 2) =>
    Load(lab.file) = Load(lab.w[lab.finished[2]].text)

\* the entry of key k is in the cache c and its age at time t is at most the TTL
Fresh(c, k, t) ==
  /\ k \in DOMAIN c
  /\ c[k].cached_at.some
  /\ t - c[k].cached_at.v <= ttl_seconds

\* C15: a fetch that reads the cache is served from it exactly when the key
\* has an entry of age at most ttl_seconds; with an older entry it does what
\* it does without one: it asks the backend, and a successful answer
\* replaces the entry with one stamped now, which is served up to
\* ttl_seconds later and no longer.  Every entry in the cache carries the
\* time it was written, so none is served forever.
C15_Expiry ==
  [][ calls' = calls + 1 =>
        /\ \A i \in 1..Len(last'.logs) :
             LET f == last'.logs[i]
             IN f.get =>
                  /\ f.hit <=> Fresh(cache, f.key, now)
                  /\ f.expired <=> (f.key \in DOMAIN cache /\ ~Fresh(cache, f.key, now))
                  /\ f.request <=> ~f.hit
                  /\ f.set <=> (f.request /\ f.raised = "")
                  /\ f.set =>
                       /\ cache'[f.key].cached_at = SomeInt(now)
                       /\ CacheGet(cache', f.key, now + ttl_seconds).some
                       /\ ~CacheGet(cache', f.key, now + ttl_seconds + 1).some
                  /\ ~f.set => (f.key \in DOMAIN cache' <=> f.key \in DOMAIN cache)
        /\ \A k \in DOMAIN cache' : cache'[k].cached_at.some ]_vars

\* an entry written at time 0 is found expired two TTLs later, the backend is
\* asked and the entry replaced by one that is served now
C15_Witness ==
  /\ prev.n > 0 /\ Called
  /\ prev.logs # <<>> /\ last.logs # <<>>
  /\ prev.logs[1].set /\ prev.at = 0
  /\ last.logs[1].key = prev.logs[1].key
  /\ last.at = 2 * ttl_seconds
  /\ last.logs[1].expired /\ last.logs[1].request /\ last.logs[1].set
  /\ cache[last.logs[1].key].cached_at = SomeInt(last.at)
  /\ CacheGet(cache, last.logs[1].key, now).some

\* an entry of age exactly ttl_seconds is served
C15_WitnessAtTTL ==
  /\ prev.n > 0 /\ Called
  /\ prev.logs # <<>> /\ last.logs # <<>>
  /\ prev.logs[1].set /\ prev.at = 0
  /\ last.logs[1].key = prev.logs[1].key
  /\ last.at = ttl_seconds
  /\ last.logs[1].hit

\* a day of the requested range that _safe_replace_year clamps in some year
Clamped(call) ==
  \/ call.args.start.month = 2 /\ call.args.start.day = 29
  \/ call.args.end.month = 2 /\ call.args.end.day = 29

\* C16 as stated: in a fallback over a valid requested range, a candidate
\* year is skipped before its fetch (its remapped end lies before its
\* remapped start) only if a day of the range was clamped; ranges that cross
\* a year boundary are among the ranges meant.
C16_Original ==
  (Called /\ last.chosen = "historical_fallback" /\ ValidRange(last)) =>
    (last.skipped # <<>> => Clamped(last))

Replaced == lab.op = "replace_year" /\ lab.done

\* what C17 says of the date returned for d and year y
ReplacedDate(d, y, r) ==
  /\ r.some
  /\ IsValidDate(r.v.year, r.v.month, r.v.day)
  /\ r.v.year = y
  /\ r.v.month = d.month
  /\ r.v.day = (IF d.month = 2 /\ d.day = 29 /\ ~IsLeap(y) THEN 28 ELSE d.day)

\* C17 as stated: for every date and every target year _safe_replace_year
\* returns a valid date in that year with the month of the date and with its
\* day, 29 February on a non-leap year giving 28 February.
C17_Original == Replaced => ReplacedDate(lab.in.d, lab.in.year, lab.out)

\* C17: for every date and every target year from 1 to 9999, the years of
\* datetime.date, _safe_replace_year returns a valid date in that year with
\* the month of the date and with its day, 29 February on a non-leap year
\* giving 28 February; for any other target year it raises ValueError.
C17_ReplaceYear ==
  Replaced =>
    IF lab.in.year \in 1..9999
    THEN ReplacedDate(lab.in.d, lab.in.year, lab.out)
    ELSE ~lab.out.some

\* 2024-02-29 onto 2025 gives 2025-02-28
C17_Witness ==
  /\ Replaced
  /\ lab.in.d = MkDate(2024, 2, 29) /\ lab.in.year = 2025
  /\ lab.out = [some |-> TRUE, v |-> MkDate(2025, 2, 28)]

Parsed == lab.op = "parse" /\ lab.done

\* the indices of the entries of the time array that are ISO dates
Parseable(time) == {i \in 1..Len(time) : FromIsoFormat(time[i]).some}

\* the k-th of a set of indices, in ascending order
Nth(S, k) == CHOOSE i \in S : Cardinality({j \in S : j < i}) = k - 1

\* the entry at index i of a field array: none when the array is shorter, or
\* the entry is null or nothing float() and int() read as a number
Entry(arr, i) ==
  IF i > Len(arr) \/ arr[i].t \in {"null", "str", "list"}
  THEN [some |-> FALSE, n |-> 0]
  ELSE [some |-> TRUE, n |-> arr[i].v]

SameFloat(field, entry) ==
  /\ field.some <=> entry.some
  /\ field.some => (field.v.n = entry.n /\ field.v.d = 1)

SameInt(field, entry) ==
  /\ field.some <=> entry.some
  /\ field.some => field.v = entry.n

\* C18: parsing gives one day for each entry of the time array that is an ISO
\* date, in the order of the array, and none for the other entries; the k-th
\* day has the date of the k-th such entry and reads each field at the index
\* of that entry in the upstream array; a field is absent when its array has
\* no such index or holds there a null or a value that is no number.
C18_Parse ==
  Parsed =>
    LET data == lab.in.data
        good == Parseable(data.time)
        days == lab.out.days
    IN /\ Len(days) = Cardinality(good)
       /\ \A k \in 1..Len(days) :
            LET i == Nth(good, k)
            IN /\ days[k].date = FromIsoFormat(data.time[i]).v
               /\ SameFloat(days[k].temp_min_c, Entry(data.tmin, i))
               /\ SameFloat(days[k].temp_max_c, Entry(data.tmax, i))
               /\ SameFloat(days[k].precipitation_mm, Entry(data.precip, i))
               /\ SameFloat(days[k].wind_max_kmh, Entry(data.wind, i))
               /\ SameInt(days[k].weather_code, Entry(data.wcode, i))

\* the first entry of three is no date: two days, whose fields come from the
\* second and third entries of the arrays; a text gives an absent field and
\* the precipitation array, one entry shorter, ends before the third entry
C18_Witness ==
  /\ Parsed
  /\ Len(lab.in.data.time) = 3
  /\ Parseable(lab.in.data.time) = {2, 3}
  /\ lab.in.data.tmin = <<JNum(1), JStr, JNumStr(2)>>
  /\ Len(lab.out.days) = 2
  /\ ~lab.out.days[1].temp_min_c.some
  /\ lab.out.days[2].temp_min_c = Some(Frac(2, 1))
  /\ lab.out.days[1].precipitation_mm = Some(Frac(2, 1))
  /\ ~lab.out.days[2].precipitation_mm.some
  /\ lab.out.days[2].date = AddDays(LabToday, 19)

\* the years, of those that succeeded, that report the code c at position i
Reporting(yearly, i, c) ==
  {k \in 1..Len(yearly) :
     /\ i <= Len(yearly[k].prof.days)
     /\ yearly[k].prof.days[i].weather_code.some
     /\ yearly[k].prof.days[i].weather_code.v = c}

\* the codes reported at position i
CodesAt(yearly, i) ==
  {yearly[k].prof.days[i].weather_code.v :
     k \in Contributors(yearly, i, "weather_code")}

\* the codes of the years at position 1, in the order of the fetches
CodeList(yearly) ==
  [k \in 1..Len(yearly) |-> yearly[k].prof.days[1].weather_code]

\* C19: the weather code of a synthesized day is absent exactly when no year
\* reported a code at its position; otherwise it is a code that no other code
\* exceeds in the number of years reporting it, and the smallest of the codes
\* reported by as many years.  The code is thus a function of these numbers
\* alone and not of the order of the years.
C19_ModeCode ==
  Synthesized =>
    \A i \in 1..Len(lab.out.profile.days) :
      LET code == lab.out.profile.days[i].weather_code
          cs == CodesAt(lab.out.yearly, i)
          n(c) == Cardinality(Reporting(lab.out.yearly, i, c))
      IN /\ code.some <=> cs # {}
         /\ code.some =>
              /\ code.v \in cs
              /\ \A c \in cs : n(c) <= n(code.v)
              /\ \A c \in cs : n(c) = n(code.v) => code.v <= c

\* the years report 5, 5, 3, 3 in the order of the fetches: the code is 3
C19_Witness ==
  /\ Synthesized
  /\ Len(lab.out.yearly) = 4
  /\ CodeList(lab.out.yearly) = <<SomeInt(5), SomeInt(5), SomeInt(3), SomeInt(3)>>
  /\ lab.out.profile.days[1].weather_code = SomeInt(3)

\* the same codes in the order 3, 3, 5, 5 and in the order 3, 5, 5, 3
C19_WitnessOrders ==
  /\ Synthesized
  /\ Len(lab.out.yearly) = 4
  /\ CodeList(lab.out.yearly) \in
       { <<SomeInt(3), SomeInt(3), SomeInt(5), SomeInt(5)>>,
         <<SomeInt(3), SomeInt(5), SomeInt(5), SomeInt(3)>> }
  /\ lab.out.profile.days[1].weather_code = SomeInt(3)

\* the fetch of prev missed the cache and stored the answer, and the fetch of
\* last, for the same arguments, was served from that entry
StoredThenServed ==
  /\ prev.n > 0 /\ Called
  /\ prev.chosen \in {"forecast", "archive"}
  /\ last.args = prev.args
  /\ Len(prev.logs) = 1 /\ Len(last.logs) = 1
  /\ prev.logs[1].set
  /\ last.logs[1].hit
  /\ last.logs[1].key = prev.logs[1].key

\* C20 as stated: a fetch served from the cache returns the profile that the
\* fetch which missed and stored the entry returned for the same arguments:
\* the same days, source, is_estimate and reference_years, and the same raw
\* payload, which is the upstream payload when include_raw is true and empty
\* when it is false.
C20_Original ==
  StoredThenServed =>
    /\ last.raised = "" /\ prev.raised = ""
    /\ last.profile.days = prev.profile.days
    /\ last.profile.source = prev.profile.source
    /\ last.profile.is_estimate = prev.profile.is_estimate
    /\ last.profile.reference_years = prev.profile.reference_years
    /\ last.profile.raw = prev.profile.raw
    /\ ~last.args.include_raw => last.profile.raw = EmptyDict

\* the part of C20 that the code keeps: everything but raw is the same, and
\* raw is empty on both when include_raw is false
C20_ParsedSame ==
  StoredThenServed =>
    /\ last.raised = "" /\ prev.raised = ""
    /\ [last.profile EXCEPT !.raw = EmptyDict] = [prev.profile EXCEPT !.raw = EmptyDict]
    /\ ~last.args.include_raw =>
         (last.profile.raw = EmptyDict /\ prev.profile.raw = EmptyDict)
    /\ last.args.include_raw =>
         [last.profile.raw EXCEPT !.cached_at = NoInt] = prev.profile.raw

====
